---- MODULE Spec2Model ----
(***************************************************************************)
(* Model of the Telegram relay bot of src/bot.py: the user_apis and        *)
(* api_states tables, the command handlers add_api / remove_api /          *)
(* call_api / block_api / unblock_api, and the background poller           *)
(* check_api_updates, all running on one asyncio event loop; and of the    *)
(* webhook receiver of src/test.py.                                        *)
(***************************************************************************)
EXTENDS Integers, Sequences, FiniteSets, TLC

\* ---------------------------------------------------------------- bounds
MaxRows == 2          \* rows the user_apis table may hold in the model

Users == {"u1", "u2"}
Names == {"a", "b"}
Urls  == {"x"}

\* ------------------------------------------------------- python values
\* A Python value as the poller handles it: its type and its content.
None == [t |-> "None", v |-> ""]
Bytes(b) == [t |-> "bytes", v |-> b]
Str(b)   == [t |-> "str", v |-> b]
Dict(b)  == [t |-> "dict", v |-> b]

\* Response bodies the endpoints serve:
\*   J1 = {"id": 1, "title": "A"}   J2 = {"id": 1, "title": "B"}
\*   PNG = the bytes of a PNG picture
Bodies == {"J1", "J2", "PNG"}

\* Content-Type headers the endpoints serve ("" = header missing).
CTypes == {"image/png", "video/mp4", "audio/mpeg", "application/octet-stream",
           "application/json", "text/plain", "text/json", ""}

\* The words of the handlers' tests  'w' in content_type  that occur in ct.
Words(ct) ==
  CASE ct = "image/png"                -> {"image"}
    [] ct = "video/mp4"                -> {"video"}
    [] ct = "audio/mpeg"               -> {"audio"}
    [] ct = "application/octet-stream" -> {"application", "octet-stream"}
    [] ct = "application/json"         -> {"application", "json"}
    [] ct = "text/plain"               -> {"text"}
    [] ct = "text/json"                -> {"text", "json"}
    [] OTHER                           -> {}

\* The branch of the if/elif chain a content type selects.
Kind(ct) ==
  IF "image" \in Words(ct) THEN "image"
  ELSE IF "video" \in Words(ct) THEN "video"
  ELSE IF "audio" \in Words(ct) THEN "audio"
  ELSE IF "application" \in Words(ct) \/ "octet-stream" \in Words(ct) THEN "document"
  ELSE IF "text" \in Words(ct) \/ "json" \in Words(ct) THEN "text"
  ELSE "unknown"

MediaKinds == {"image", "video", "audio", "document"}

\* Image.open(BytesIO(body)) succeeds only on picture bytes.
ImageOpens(b) == b = "PNG"

\* response.json() raises on a body that is not JSON.
JsonParses(b) == b \in {"J1", "J2"}

\* What requests.get(url) produces: a response, or an exception.
Response(s, ct, b) == [k |-> "response", status |-> s, ctype |-> ct, body |-> b]
Raised == [k |-> "raise", status |-> 0, ctype |-> "", body |-> ""]
Responses200 == {Response(200, ct, b) : ct \in CTypes, b \in Bodies}
FailedResults == {Response(404, "text/plain", "J1"), Raised}
\* a poller that takes every response for a success
AnyStatus(net) == net.k = "response"
Is200(net) == net.k = "response" /\ net.status = 200

\* ------------------------------------------------------------ database
Key(u, n) == [user_id |-> u, api_name |-> n]
UserAPI(u, n, url) == [user_id |-> u, api_name |-> n, api_url |-> url]
APIState(u, n, d) == [user_id |-> u, api_name |-> n, last_data |-> d]

VARIABLES
  user_apis,    \* table user_apis: sequence of rows in rowid order
  api_states,   \* table api_states: set of rows
  pc,           \* check_api_updates: "sleep" | "fetch" | "sending"
  apis,         \* check_api_updates: the list  apis  of the running sweep
  idx,          \* check_api_updates: position of the for loop in apis
  cur,          \* check_api_updates: the iteration in progress or just ended
  log,          \* history: the iterations of the running sweep, in order
  reply,        \* what the last command handler answered
  stuck,        \* the call that blocks the event loop for ever, if any
  group_settings, \* table group_settings: sequence of rows in rowid order
  posted,       \* history: the API content call_api last put into a group chat
  push          \* src/test.py: the last POST and what handle did with it

vars == <<user_apis, api_states, pc, apis, idx, cur, log, reply, stuck,
          group_settings, posted, push>>
rest == <<group_settings, posted, push>>

NoCur == [o |-> "none"]
NoReply == [cmd |-> "none", kind |-> "none"]
NoPost == [to |-> "", name |-> ""]
NoPush == [body |-> "", status |-> 0, sent_to |-> {}]

Init ==
  /\ user_apis = <<>>
  /\ api_states = {}
  /\ pc = "sleep"
  /\ apis = <<>>
  /\ idx = 1
  /\ cur = NoCur
  /\ log = <<>>
  /\ reply = NoReply
  /\ stuck = "none"
  /\ group_settings = <<>>
  /\ posted = NoPost
  /\ push = NoPush

\* a lookup that forgets the user_id filter
RECURSIVE FirstIndexAnyUser(_, _, _, _)
FirstIndexAnyUser(rows, u, n, i) ==
  IF i > Len(rows) THEN 0
  ELSE IF rows[i].api_name = n THEN i
  ELSE FirstIndexAnyUser(rows, u, n, i + 1)

\* session.query(T).filter_by(user_id=u, api_name=n).first() on a sequence
RECURSIVE FirstIndex(_, _, _, _)
FirstIndex(rows, u, n, i) ==
  IF i > Len(rows) THEN 0
  ELSE IF rows[i].user_id = u /\ rows[i].api_name = n THEN i
  ELSE FirstIndex(rows, u, n, i + 1)

\* the sequence rows without its i-th element
RemoveAt(rows, i) ==
  [j \in 1..(Len(rows) - 1) |-> IF j < i THEN rows[j] ELSE rows[j + 1]]

get_last_state(u, n) ==
  IF \E s \in api_states : s.user_id = u /\ s.api_name = n
  THEN (CHOOSE s \in api_states : s.user_id = u /\ s.api_name = n).last_data
  ELSE None

\* The String column takes str, bytes (kept as a blob) and NULL; the driver
\* refuses to bind a dict and the commit raises.
Binds(d) == d.t \in {"bytes", "str", "None"}

\* the api_states table after a save_last_state(u, n, d) that commits
save_last_state(u, n, d) ==
  {s \in api_states : ~(s.user_id = u /\ s.api_name = n)} \cup {APIState(u, n, d)}

\* A coroutine runs only while the event loop's thread is not inside a
\* blocking call, and a handler starts only when the poller is suspended at
\* an await (its sleep or a bot.send_*).
LoopFree == stuck = "none"
PollerSuspended == pc \in {"sleep", "sending"}

\* ------------------------------------------------------------ commands
\* context.args of a command: the words after the command name
AddArgs == {<<>>} \cup {<<n>> : n \in Names}
             \cup {<<n, url>> : n \in Names, url \in Urls}
             \cup {<<n, url, "more">> : n \in Names, url \in Urls}
NameArgs == {<<>>} \cup {<<n>> : n \in Names} \cup {<<n, "more">> : n \in Names}

Reply(c, k) == [cmd |-> c, kind |-> k]

\* an insert that puts the new row first
InsertFirst(rows, r) == <<r>> \o rows

\* session.add(new_api); session.commit(): the new row gets the highest rowid
Insert(rows, r) == Append(rows, r)

add_api(u, args) ==
  /\ LoopFree /\ PollerSuspended
  /\ IF Len(args) < 2
     THEN /\ reply' = Reply("add_api", "usage")
          /\ UNCHANGED user_apis
     ELSE /\ Len(user_apis) < MaxRows
          /\ user_apis' = Insert(user_apis, UserAPI(u, args[1], args[2]))
          /\ reply' = Reply("add_api", "bound")
  /\ UNCHANGED <<api_states, pc, apis, idx, cur, log, stuck>>
  /\ UNCHANGED rest

remove_api(u, args) ==
  /\ LoopFree /\ PollerSuspended
  /\ IF Len(args) < 1
     THEN /\ reply' = Reply("remove_api", "usage")
          /\ UNCHANGED user_apis
     ELSE LET i == FirstIndex(user_apis, u, args[1], 1) IN
          IF i # 0
          THEN /\ user_apis' = RemoveAt(user_apis, i)
               /\ reply' = Reply("remove_api", "removed")
          ELSE /\ reply' = Reply("remove_api", "not_found")
               /\ UNCHANGED user_apis
  /\ UNCHANGED <<api_states, pc, apis, idx, cur, log, stuck>>
  /\ UNCHANGED rest

\* What call_api answers once requests.get has returned net; ok tells
\* whether the bot.send_* of a media branch succeeds.
CallReply(net, ok) ==
  IF net.k = "raise" THEN "get_raised"
  ELSE IF net.status # 200 THEN "status_failed"
  ELSE LET kind == Kind(net.ctype) IN
       IF kind = "image" THEN
         IF ImageOpens(net.body) /\ ok THEN "sent_image" ELSE "process_failed"
       ELSE IF kind \in MediaKinds THEN
         IF ~ok THEN "process_failed"
         ELSE IF kind = "video" THEN "sent_video"
         ELSE IF kind = "audio" THEN "sent_audio"
         ELSE "sent_document"
       ELSE IF kind = "text" THEN
         IF "json" \in Words(net.ctype) /\ ~JsonParses(net.body)
         THEN "process_failed" ELSE "sent_text"
       ELSE "unknown_type"

\* update.effective_chat of a command: the chat it was issued in
Chat(id, type) == [id |-> id, type |-> type]
PrivateChat(u) == Chat(u, "private")
GroupChats == {Chat("g1", "group"), Chat("g2", "group")}
OtherChats == {Chat("sg", "supergroup")} \cup {PrivateChat(u) : u \in Users}

\* The chat that gets the content of the response: the media branches send
\* to chat_id=user_id, the text branch answers update.message, the other
\* answers carry no content.
ContentTo(chat, u, net, ok) ==
  LET r == CallReply(net, ok) IN
  IF r \in {"sent_image", "sent_video", "sent_audio", "sent_document"} THEN u
  ELSE IF r = "sent_text" THEN chat.id
  ELSE ""

Post(to, n) == [to |-> to, name |-> n]

call_api_from(chat, u, args, net, ok) ==
  /\ LoopFree /\ PollerSuspended
  /\ IF Len(args) < 1
     THEN /\ reply' = Reply("call_api", "usage")
          /\ UNCHANGED posted
     ELSE IF FirstIndex(user_apis, u, args[1], 1) = 0
     THEN /\ reply' = Reply("call_api", "not_found")
          /\ UNCHANGED posted
     ELSE /\ reply' = Reply("call_api", CallReply(net, ok))
          /\ posted' = IF chat.type # "private" /\ ContentTo(chat, u, net, ok) = chat.id
                       THEN Post(chat.id, args[1]) ELSE posted
  /\ UNCHANGED <<user_apis, api_states, pc, apis, idx, cur, log, stuck>>
  /\ UNCHANGED <<group_settings, push>>

\* call_api issued in the user's private chat with the bot
call_api(u, args, net, ok) == call_api_from(PrivateChat(u), u, args, net, ok)

\* requests.get(api.api_url) of call_api never returns: it has no timeout
\* and runs on the event loop's thread.
call_api_hangs(u, args) ==
  /\ LoopFree /\ PollerSuspended
  /\ Len(args) >= 1
  /\ FirstIndex(user_apis, u, args[1], 1) # 0
  /\ stuck' = "call_api"
  /\ UNCHANGED <<user_apis, api_states, pc, apis, idx, cur, log, reply>>
  /\ UNCHANGED rest

\* -------------------------------------------------------------- poller
\* a loop that walks the live table instead of the list it read
LiveRows == user_apis

\* for api in apis: the list the loop walks
IterRows == apis

\* an exception handler around the whole for loop: the sweep is abandoned
AbandonSweep(i) == Len(apis) + 1

\* the loop position after an iteration whose exception line 234 caught
AfterError(i) == i + 1

\* The value an iteration compares with last_state (lines 201..229): the
\* body as bytes for the media branches, response.json() or response.text
\* for the text branch.
Data(net) ==
  IF Kind(net.ctype) \in MediaKinds THEN Bytes(net.body)
  ELSE IF "json" \in Words(net.ctype) THEN Dict(net.body)
  ELSE Str(net.body)

\* data != last_state
Differs(data, last) == data # last

\* How an iteration goes up to its first await, given what requests.get
\* produced and the stored state last:
\*   Failed        status is not 200, or requests.get raised
\*   Unknown       no branch takes the content type (logger.warning)
\*   ProcessError  response.json() or Image.open raised
\*   Unchanged     the data equals last_state
\*   pending       the iteration awaits bot.send_*
Decide(net, last) ==
  IF ~Is200(net) THEN "Failed"
  ELSE LET kind == Kind(net.ctype) IN
       IF kind = "unknown" THEN "Unknown"
       ELSE IF kind = "text" /\ "json" \in Words(net.ctype) /\ ~JsonParses(net.body)
            THEN "ProcessError"
       ELSE IF ~Differs(Data(net), last) THEN "Unchanged"
       ELSE IF kind = "image" /\ ~ImageOpens(net.body) THEN "ProcessError"
       ELSE "pending"

Cur(row, net, last, o) == [row |-> row, resp |-> net, last |-> last, o |-> o]
Entry(row, o) == [row |-> row, o |-> o]

\* await asyncio.sleep(60) returns; apis = session.query(UserAPI).all()
SweepStart ==
  /\ LoopFree /\ pc = "sleep"
  /\ pc' = "fetch"
  /\ apis' = user_apis
  /\ idx' = 1
  /\ cur' = NoCur
  /\ log' = <<>>
  /\ UNCHANGED <<user_apis, api_states, reply, stuck>>
  /\ UNCHANGED rest

\* one iteration of the for loop, from requests.get to its first await or
\* to its end
Fetch(net) ==
  /\ LoopFree /\ pc = "fetch" /\ idx <= Len(IterRows)
  /\ LET api == IterRows[idx]
         last == get_last_state(api.user_id, api.api_name)
         o == Decide(net, last)
     IN /\ cur' = Cur(api, net, last, o)
        /\ IF o = "pending"
           THEN /\ pc' = "sending"
                /\ UNCHANGED <<idx, log>>
           ELSE /\ pc' = "fetch"
                /\ idx' = IF o = "ProcessError" \/ net.k = "raise"
                          THEN AfterError(idx) ELSE idx + 1
                /\ log' = Append(log, Entry(api, o))
  /\ UNCHANGED <<user_apis, api_states, apis, reply, stuck>>
  /\ UNCHANGED rest

\* requests.get(api.api_url) of the poller never returns
FetchHangs ==
  /\ LoopFree /\ pc = "fetch" /\ idx <= Len(IterRows)
  /\ stuck' = "check_api_updates"
  /\ UNCHANGED <<user_apis, api_states, pc, apis, idx, cur, log, reply>>
  /\ UNCHANGED rest

\* await bot.send_*(...) returns (ok) or raises, then save_last_state
SendDone(ok) ==
  /\ LoopFree /\ pc = "sending"
  /\ LET api == cur.row
         data == Data(cur.resp)
         o == IF ~ok THEN "DeliveryFailed"
              ELSE IF Binds(data) THEN "Changed" ELSE "SaveFailed"
     IN /\ api_states' = IF o = "Changed"
                         THEN save_last_state(api.user_id, api.api_name, data)
                         ELSE api_states
        /\ cur' = [cur EXCEPT !.o = o]
        /\ log' = Append(log, Entry(api, o))
        /\ idx' = IF o = "Changed" THEN idx + 1 ELSE AfterError(idx)
  /\ pc' = "fetch"
  /\ UNCHANGED <<user_apis, apis, reply, stuck>>
  /\ UNCHANGED rest

\* the for loop is over; back to await asyncio.sleep(60)
SweepEnd ==
  /\ LoopFree /\ pc = "fetch" /\ idx > Len(IterRows)
  /\ pc' = "sleep"
  /\ apis' = <<>>
  /\ idx' = 1
  /\ cur' = NoCur
  /\ log' = <<>>
  /\ UNCHANGED <<user_apis, api_states, reply, stuck>>
  /\ UNCHANGED rest

\* ------------------------------------------------------ specifications
\* The inputs of the whole system: one name under which endpoints are
\* registered, one name nobody registered, one URL, and one result of
\* requests.get for each way an iteration of the poller can go.
FewAddArgs == {<<>>, <<"a">>, <<"a", "x">>}
FewNameArgs == {<<>>, <<"a">>, <<"b">>}
FewNets == {Response(404, "text/plain", "J1"), Raised,
            Response(200, "", "PNG"),
            Response(200, "image/png", "J1"),
            Response(200, "text/plain", "J1"),
            Response(200, "text/json", "J1")}
AllNets == Responses200 \cup FailedResults

\* the tables user_apis can be after some add_api and remove_api commands
\* with the few inputs
RECURSIVE SeqsUpTo(_, _)
SeqsUpTo(S, n) ==
  IF n = 0 THEN {<<>>}
  ELSE LET shorter == SeqsUpTo(S, n - 1)
       IN shorter \cup {Append(q, x) : q \in {r \in shorter : Len(r) = n - 1}, x \in S}
FewRows == {UserAPI(u, "a", "x") : u \in Users}

Commands ==
  \/ \E u \in Users, args \in FewAddArgs : add_api(u, args)
  \/ \E u \in Users, args \in FewNameArgs : remove_api(u, args)
  \/ \E u \in Users, args \in FewNameArgs, net \in FewNets, ok \in BOOLEAN :
        call_api(u, args, net, ok)
  \/ \E u \in Users, args \in FewNameArgs : call_api_hangs(u, args)

Poller(nets) ==
  \/ SweepStart
  \/ \E net \in nets : Fetch(net)
  \/ \E ok \in BOOLEAN : SendDone(ok)
  \/ SweepEnd

\* The whole bot: the commands and the poller on one event loop.
Next ==
  \/ Commands
  \/ Poller(FewNets)
  \/ FetchHangs

Spec == Init /\ [][Next]_vars

\* The poller alone over every response, on a table that does not change.
PollInit ==
  /\ user_apis \in SeqsUpTo(FewRows, MaxRows)
  /\ api_states = {}
  /\ pc = "sleep"
  /\ apis = <<>>
  /\ idx = 1
  /\ cur = NoCur
  /\ log = <<>>
  /\ reply = NoReply
  /\ stuck = "none"
  /\ group_settings = <<>>
  /\ posted = NoPost
  /\ push = NoPush

PollNext == Poller(AllNets)

PollSpec == PollInit /\ [][PollNext]_vars

\* The command handlers alone over every argument list and every response.
RegistryNext ==
  \/ \E u \in Users, args \in AddArgs : add_api(u, args)
  \/ \E u \in Users, args \in NameArgs : remove_api(u, args)
  \/ \E u \in Users, args \in NameArgs, net \in AllNets, ok \in BOOLEAN :
        call_api(u, args, net, ok)

RegistrySpec == Init /\ [][RegistryNext]_vars

\* ---------------------------------------------------------- block list
GroupSettings(g, n) == [group_id |-> g, blocked_api |-> n]

\* a lookup that never finds a row
BlockIndexNever(rows, g, n, i) == 0

\* session.query(GroupSettings).filter_by(group_id=g, blocked_api=n).first()
RECURSIVE BlockIndex(_, _, _, _)
BlockIndex(rows, g, n, i) ==
  IF i > Len(rows) THEN 0
  ELSE IF rows[i].group_id = g /\ rows[i].blocked_api = n THEN i
  ELSE BlockIndex(rows, g, n, i + 1)

block_api(chat, args) ==
  /\ LoopFree /\ PollerSuspended
  /\ IF chat.type # "group"
     THEN /\ reply' = Reply("block_api", "not_group")
          /\ UNCHANGED group_settings
     ELSE IF Len(args) < 1
     THEN /\ reply' = Reply("block_api", "usage")
          /\ UNCHANGED group_settings
     ELSE IF BlockIndex(group_settings, chat.id, args[1], 1) = 0
     THEN /\ group_settings' = Append(group_settings, GroupSettings(chat.id, args[1]))
          /\ reply' = Reply("block_api", "blocked")
     ELSE /\ reply' = Reply("block_api", "already")
          /\ UNCHANGED group_settings
  /\ UNCHANGED <<user_apis, api_states, pc, apis, idx, cur, log, stuck>>
  /\ UNCHANGED <<posted, push>>

unblock_api(chat, args) ==
  /\ LoopFree /\ PollerSuspended
  /\ IF chat.type # "group"
     THEN /\ reply' = Reply("unblock_api", "not_group")
          /\ UNCHANGED group_settings
     ELSE IF Len(args) < 1
     THEN /\ reply' = Reply("unblock_api", "usage")
          /\ UNCHANGED group_settings
     ELSE LET i == BlockIndex(group_settings, chat.id, args[1], 1) IN
          IF i # 0
          THEN /\ group_settings' = RemoveAt(group_settings, i)
               /\ reply' = Reply("unblock_api", "unblocked")
          ELSE /\ reply' = Reply("unblock_api", "not_blocked")
               /\ UNCHANGED group_settings
  /\ UNCHANGED <<user_apis, api_states, pc, apis, idx, cur, log, stuck>>
  /\ UNCHANGED <<posted, push>>

\* block_api and unblock_api as issued in group chats and elsewhere.
AllChats == GroupChats \cup OtherChats
BlockNext ==
  \/ \E chat \in AllChats, args \in NameArgs : block_api(chat, args)
  \/ \E chat \in AllChats, args \in NameArgs : unblock_api(chat, args)

BlockSpec == Init /\ [][BlockNext]_vars

\* call_api as issued in one group chat and in the private chats, next to
\* the commands that fill the two tables it could read.
FewChats == {Chat("g1", "group")} \cup {PrivateChat(u) : u \in Users}
GroupCallNext ==
  \/ \E u \in Users, args \in FewAddArgs : add_api(u, args)
  \/ \E chat \in FewChats, args \in FewNameArgs : block_api(chat, args)
  \/ \E chat \in FewChats, args \in FewNameArgs : unblock_api(chat, args)
  \/ \E chat \in FewChats, u \in Users, args \in FewNameArgs, net \in FewNets,
        ok \in BOOLEAN : call_api_from(chat, u, args, net, ok)

GroupCallSpec == Init /\ [][GroupCallNext]_vars

\* ------------------------------------------------------------- webhook
\* src/test.py: the body of a POST to "/"
PushBodies == Bodies

\* What aiohttp answers for a POST with this body: handle returns
\* web.Response(text="OK"), or request.json() raises and the server turns
\* the unhandled exception into 500 Internal Server Error.
HandleStatus(body) == IF JsonParses(body) THEN 200 ELSE 500

\* handle prints the data and sends nothing to any chat
handle(body) ==
  /\ push' = [body |-> body, status |-> HandleStatus(body), sent_to |-> {}]
  /\ UNCHANGED <<user_apis, api_states, pc, apis, idx, cur, log, reply, stuck>>
  /\ UNCHANGED <<group_settings, posted>>

\* The webhook receiver next to the registry commands of the bot.
WebhookNext ==
  \/ \E u \in Users, args \in AddArgs : add_api(u, args)
  \/ \E u \in Users, args \in NameArgs : remove_api(u, args)
  \/ \E body \in PushBodies : handle(body)

WebhookSpec == Init /\ [][WebhookNext]_vars

\* ================================================================ claims
\* bot.send_* was called in the iteration that ended with outcome o
Dispatched(o) == o \in {"Changed", "DeliveryFailed", "SaveFailed"}
Ended == cur.o \notin {"none", "pending"}
StoredNow == get_last_state(cur.row.user_id, cur.row.api_name)
ByUser(rows, u) == SelectSeq(rows, LAMBDA r : r.user_id = u)
Has(rows, u, n) == \E i \in 1..Len(rows) : rows[i].user_id = u /\ rows[i].api_name = n
RowsOf(l) == [i \in 1..Len(l) |-> l[i].row]

\* C1: an iteration whose fetch returned 200 while nothing was stored for
\* the endpoint calls bot.send_* exactly once, whatever the content type
\* and the body are.
C1_FirstFetchDispatches ==
  (Ended /\ cur.resp.k = "response" /\ cur.resp.status = 200 /\ cur.last = None)
    => Dispatched(cur.o)

\* C2: once an iteration has delivered a notification for a response, an
\* iteration that gets the same response again for the same endpoint, with
\* nothing in between, does not dispatch a second time.
C2_UnchangedIdempotent ==
  (Ended /\ cur.o \in {"Changed", "SaveFailed"})
    => Decide(cur.resp, StoredNow) # "pending"

\* C3: when the delivery of a Changed endpoint's notification fails, the
\* new fingerprint is stored all the same.
C3_StoredDespiteDeliveryFailure ==
  (Ended /\ cur.o = "DeliveryFailed") => StoredNow = Data(cur.resp)

\* C4: a failed fetch, a processing error or a failed delivery on one
\* endpoint ends that iteration only: the for loop never moves past an
\* endpoint of the sweep that it has not iterated, and the poller stays in
\* its loop.
C4_FailureDoesNotAbortSweep ==
  /\ pc \in {"sleep", "fetch", "sending"}
  /\ pc \in {"fetch", "sending"} =>
       /\ Len(log) = idx - 1
       /\ idx <= Len(apis) + 1
       /\ \A i \in 1..Len(log) : log[i].row = apis[i]

C4_Witness ==
  /\ pc = "fetch" /\ Len(log) = 2
  /\ log[1].o \in {"Failed", "DeliveryFailed", "ProcessError"}
  /\ log[2].o = "Changed"

\* C5: an iteration whose fetch fails (status other than 200, or an
\* exception of requests.get) sends nothing and leaves the endpoint's
\* stored state as it was.
C5_FailedFetchIsSilent ==
  (cur.o # "none" /\ (cur.resp.k = "raise" \/ cur.resp.status # 200))
    => /\ cur.o = "Failed"
       /\ pc # "sending"
       /\ StoredNow = cur.last
       /\ log # <<>> /\ log[Len(log)] = Entry(cur.row, "Failed")

C5_Witness ==
  /\ cur.o = "Failed" /\ cur.resp.k = "response" /\ cur.resp.status = 404
  /\ cur.last # None

\* C6: while a fetch of the poller hangs, commands are still served and
\* the sweep goes on.
C6_StuckFetchDoesNotStall ==
  stuck = "check_api_updates" =>
    /\ ENABLED (\E u \in Users, args \in FewAddArgs : add_api(u, args))
    /\ ENABLED (SweepEnd \/ \E net \in FewNets : Fetch(net))

\* C7: a sweep walks the rows the table held when the sweep started, each
\* exactly once and in order, whatever add_api and remove_api do to the
\* table while the sweep awaits a send; the next sweep starts from the
\* table as it is then.
C7_SweepIteratesSnapshot ==
  [][/\ (pc = "sleep" /\ pc' = "fetch") => apis' = user_apis
     /\ (pc # "sleep" /\ pc' # "sleep") =>
          /\ apis' = apis
          /\ \E k \in 0..1 : /\ Len(log') = Len(log) + k
                             /\ SubSeq(log', 1, Len(log)) = log
     /\ (pc = "fetch" /\ pc' = "sleep") => RowsOf(log) = apis]_vars

C7_Witness ==
  /\ pc = "fetch" /\ idx > Len(apis)
  /\ Len(apis) = 2 /\ RowsOf(log) = apis
  /\ user_apis # apis

\* C8: a well-formed add_api appends the new endpoint at the end of the
\* caller's endpoints and leaves every other user's endpoints alone.
C8_AddAppends ==
  [][\A u \in Users, args \in AddArgs :
       (add_api(u, args) /\ Len(args) >= 2) =>
         /\ ByUser(user_apis', u)
              = Append(ByUser(user_apis, u), UserAPI(u, args[1], args[2]))
         /\ \A w \in Users \ {u} : ByUser(user_apis', w) = ByUser(user_apis, w)]_vars

C8_Witness ==
  /\ reply = Reply("add_api", "bound")
  /\ Len(user_apis) = 2
  /\ user_apis[1].user_id = user_apis[2].user_id
  /\ user_apis[1] # user_apis[2]

\* C9: after a remove_api that answers "removed", the caller has no
\* endpoint of that name any more, exactly one row is gone and the other
\* rows keep their order.
C9_RemovedIsGone ==
  [][\A u \in Users, args \in NameArgs :
       (remove_api(u, args) /\ reply'.kind = "removed") =>
         /\ ~Has(user_apis', u, args[1])
         /\ Len(user_apis') = Len(user_apis) - 1
         /\ \E i \in 1..Len(user_apis) : user_apis' = RemoveAt(user_apis, i)]_vars

\* C10: add_api without a name or a URL, and remove_api without a name or
\* of a name the caller has not registered, answer with an error message
\* and change neither table, and the bot keeps serving.
C10_UserErrorsChangeNothing ==
  [][/\ \A u \in Users, args \in AddArgs \cup FewAddArgs :
          (add_api(u, args) /\ Len(args) < 2) =>
            /\ UNCHANGED <<user_apis, api_states, stuck>>
            /\ reply' = Reply("add_api", "usage")
     /\ \A u \in Users, args \in NameArgs \cup FewNameArgs :
          (remove_api(u, args) /\ (Len(args) < 1 \/ ~Has(user_apis, u, args[1]))) =>
            /\ UNCHANGED <<user_apis, api_states, stuck>>
            /\ reply' = Reply("remove_api", IF Len(args) < 1 THEN "usage" ELSE "not_found")]_vars

C10_Witness ==
  /\ reply = Reply("remove_api", "not_found")
  /\ user_apis # <<>>
  /\ api_states # {}

\* C11: an endpoint that add_api creates under a name the caller has no
\* endpoint of starts with nothing stored for it, also when the caller had
\* such an endpoint before, had it polled and removed it.
C11_AddStartsUnset ==
  [][\A u \in Users, args \in AddArgs \cup FewAddArgs :
       (add_api(u, args) /\ Len(args) >= 2 /\ ~Has(user_apis, u, args[1]))
         => get_last_state(u, args[1])' = None]_vars

\* the identity field "id" of a JSON body
IdentityOf(b) == IF b \in {"J1", "J2"} THEN "1" ELSE ""

\* C12: once a JSON response of an endpoint has been notified, a next
\* response with the same "id" and other fields changed is Unchanged and
\* is not dispatched.
C12_IdentityFieldWins ==
  (Ended /\ cur.o \in {"Changed", "SaveFailed"}
         /\ "json" \in Words(cur.resp.ctype) /\ JsonParses(cur.resp.body))
    => \A b \in Bodies :
         (JsonParses(b) /\ IdentityOf(b) = IdentityOf(cur.resp.body))
           => Decide(Response(200, cur.resp.ctype, b), StoredNow) = "Unchanged"

\* C13: a 200 response whose content type no branch recognizes is turned
\* into a text message with the raw data and sent: the poller dispatches
\* it, and call_api never answers that the type is unknown.
C13_UnknownTypeIsDelivered ==
  /\ (Ended /\ cur.resp.k = "response" /\ cur.resp.status = 200
            /\ Words(cur.resp.ctype) = {} /\ cur.last # Str(cur.resp.body))
       => Dispatched(cur.o)
  /\ reply # Reply("call_api", "unknown_type")

\* C14: a 200 response whose content type says JSON, application/json
\* included, goes through the text branch, and a body that is not JSON does
\* not make the iteration raise: a new one is sent as a text message.
C14_JsonIsText ==
  (cur.o # "none" /\ cur.resp.k = "response" /\ cur.resp.status = 200
                  /\ "json" \in Words(cur.resp.ctype))
    => /\ Kind(cur.resp.ctype) = "text"
       /\ cur.o # "ProcessError"

\* the chats that have an endpoint registered
RegisteredChats(rows) == {rows[i].user_id : i \in 1..Len(rows)}

\* C15: a push that the webhook handler accepts is dispatched to every
\* chat registered at that moment.
C15_PushIsBroadcast ==
  [][\A body \in PushBodies :
       (handle(body) /\ push'.status = 200)
         => push'.sent_to = RegisteredChats(user_apis)]_vars

\* C16: a POST whose body is not JSON is answered with a 4xx status.
C16_MalformedPushIsClientError ==
  (push # NoPush /\ ~JsonParses(push.body)) => push.status \in 400..499

\* C17: an iteration of the poller changes what is stored for the endpoint
\* it polls only: the state that get_last_state returns for every other
\* row of the sweep stays as it is.
C17_FingerprintPerEndpoint ==
  [][\A j \in 1..Len(apis) :
       (pc \in {"fetch", "sending"} /\ j # idx)
         => get_last_state(apis[j].user_id, apis[j].api_name)'
              = get_last_state(apis[j].user_id, apis[j].api_name)]_vars

IsBlocked(rows, g, n) ==
  \E i \in 1..Len(rows) : rows[i].group_id = g /\ rows[i].blocked_api = n
NoDuplicates(rows) ==
  \A i, j \in 1..Len(rows) : rows[i] = rows[j] => i = j

\* C18: the block list never holds a (group, name) pair twice; block_api
\* of a blocked name, unblock_api of a name that is not blocked, and either
\* command outside a chat of type "group" leave the block list as it is.
C18_BlockListHasNoDuplicates ==
  [][/\ NoDuplicates(group_settings')
     /\ \A chat \in AllChats, args \in NameArgs :
          /\ (block_api(chat, args)
                /\ (chat.type # "group" \/ Len(args) < 1
                      \/ IsBlocked(group_settings, chat.id, args[1])))
               => group_settings' = group_settings
          /\ (unblock_api(chat, args)
                /\ (chat.type # "group" \/ Len(args) < 1
                      \/ ~IsBlocked(group_settings, chat.id, args[1])))
               => group_settings' = group_settings]_vars

C18_Witness ==
  /\ reply = Reply("block_api", "already")
  /\ Len(group_settings) >= 2

\* C19: a call_api issued in a group for a name on that group's block list
\* puts no content of the API into the group.
C19_BlockedApiStaysOut ==
  [][\A chat \in FewChats, u \in Users, args \in FewNameArgs,
        net \in FewNets, ok \in BOOLEAN :
       (call_api_from(chat, u, args, net, ok) /\ Len(args) >= 1
          /\ IsBlocked(group_settings, chat.id, args[1]))
         => /\ reply'.kind # "sent_text"
            /\ posted' = posted]_vars

====
